---- MODULE Spec2Model ----
(***************************************************************************)
(* A model of cvr's src/lib.rs: the planar 8-bit RGB image RgbImg, its     *)
(* conversion from and to a packed (interleaved) buffer, the lock-step     *)
(* channel iterator RgbIter and the greyscale adaptor GreyscaleIter.       *)
(*                                                                         *)
(* Rust slices are 0-based; TLA+ sequences are 1-based.  A sequence s      *)
(* models a slice, and the Rust element s[i] is At(s, i) == s[i + 1].      *)
(***************************************************************************)
EXTENDS Integers, Sequences, FiniteSets, TLC

\* ------------------------------------------------------------------ bounds

\* Longest packed buffer handed to from_packed_buf.
MaxLen == 6
\* Largest height and largest width handed to from_packed_buf.
MaxDim == 2
\* Calls of next() made after the iterator has reported the end.
MaxExtraCalls == 2

\* The byte values the buffers are drawn from (u8 samples: both ends of the range).
Byte == {0, 255}
\* The spec's end-to-end example buffer, added to the enumerated inputs.
ExampleBuf == <<10, 20, 30, 40, 50, 60>>

SeqsUpTo(S, n) == UNION {[1..k -> S] : k \in 0..n}
\* One-pixel buffers around the luma map's edges: just below saturation, mid
\* range, and small values.
LumaBufs == {<<255, 255, 254>>, <<254, 255, 255>>, <<128, 128, 128>>,
             <<1, 2, 3>>, <<5, 0, 0>>, <<0, 1, 0>>}
Bufs == SeqsUpTo(Byte, MaxLen) \cup {ExampleBuf} \cup LumaBufs
Dims == 0..MaxDim
\* What the never-written bytes of the three fresh allocations may read as: the
\* fill of the memory the allocator hands out, sampled as one byte value per call.
Junk == Byte

At(s, i) == s[i + 1]

\* ------------------------------------------------------------------ values

NoImg == [tag |-> "none"]
NoVec == [tag |-> "none"]
NoIter == [kind |-> "none"]
NoArg == [tag |-> "none"]
NoHint == <<>>
Panic == [tag |-> "panic"]

\* ------------------------------------------------------------------ RgbImg

\* RgbImg::new: three empty channels, height and width 0.
new == [r |-> <<>>, g |-> <<>>, b |-> <<>>, height |-> 0, width |-> 0]

r(self) == self.r
g(self) == self.g
b(self) == self.b
height(self) == self.height
width(self) == self.width
total(self) == height(self) * width(self)

\* buf.chunks_exact(3): the floor(len / 3) whole groups of three bytes; a
\* remainder of one or two bytes is not visited.
chunks_exact(buf) ==
  [idx \in 1..(Len(buf) \div 3) |->
     <<At(buf, 3 * (idx - 1)), At(buf, 3 * (idx - 1) + 1), At(buf, 3 * (idx - 1) + 2)>>]

\* MiniVec::with_capacity(total) followed by spare_capacity_mut(): a slice of
\* exactly `total` uninitialised bytes.
spare_capacity(tot) == tot

\* RgbImg::from_packed_buf(buf, h, w).  Chunk idx is written to r_buf[idx],
\* g_buf[idx], b_buf[idx]; the index is bounds-checked against the spare
\* capacity, so a chunk past it panics.  set_len(total) then makes every entry
\* of 0..total-1 part of the channel, written or not: a never-written entry
\* reads as whatever the allocation held (junk, chosen by the caller of this
\* operator among the values of Junk).
from_packed_buf_truncating(buf, h, w, junk) ==
  LET tot == h * w
      chunks == chunks_exact(buf)
      n == IF Len(chunks) < tot THEN Len(chunks) ELSE tot
  IN [tag |-> "ok",
      img |-> [r |-> [idx \in 1..n |-> chunks[idx][1]],
               g |-> [idx \in 1..n |-> chunks[idx][2]],
               b |-> [idx \in 1..n |-> chunks[idx][3]],
               height |-> h, width |-> w]]

from_packed_buf_swapped(buf, h, w, junk) ==
  LET tot == h * w
      chunks == chunks_exact(buf)
  IN IF Len(chunks) > spare_capacity(tot)
       THEN Panic
       ELSE [tag |-> "ok",
             img |-> [r |-> [idx \in 1..tot |->
                               IF idx <= Len(chunks) THEN chunks[idx][3] ELSE junk],
                      g |-> [idx \in 1..tot |->
                               IF idx <= Len(chunks) THEN chunks[idx][2] ELSE junk],
                      b |-> [idx \in 1..tot |->
                               IF idx <= Len(chunks) THEN chunks[idx][1] ELSE junk],
                      height |-> h, width |-> w]]

from_packed_buf(buf, h, w, junk) ==
  LET tot == h * w
      chunks == chunks_exact(buf)
  IN IF Len(chunks) > spare_capacity(tot)
       THEN Panic
       ELSE [tag |-> "ok",
             img |-> [r |-> [idx \in 1..tot |->
                               IF idx <= Len(chunks) THEN chunks[idx][1] ELSE junk],
                      g |-> [idx \in 1..tot |->
                               IF idx <= Len(chunks) THEN chunks[idx][2] ELSE junk],
                      b |-> [idx \in 1..tot |->
                               IF idx <= Len(chunks) THEN chunks[idx][3] ELSE junk],
                      height |-> h, width |-> w]]

\* RgbImg::to_packed_buf: a vector of 3 * total() bytes; pixel idx goes to
\* offsets 3*idx, 3*idx+1, 3*idx+2.  r[idx], g[idx], b[idx] are bounds-checked
\* slice reads, so a channel shorter than total() panics.
to_packed_buf_planar(self) ==
  [tag |-> "ok", vec |-> r(self) \o g(self) \o b(self)]

to_packed_buf_bgr(self) ==
  LET len == total(self) * 3
  IN [tag |-> "ok",
      vec |-> [k \in 1..len |->
                 LET idx == (k - 1) \div 3
                     off == (k - 1) % 3
                 IN CASE off = 0 -> At(b(self), idx)
                      [] off = 1 -> At(g(self), idx)
                      [] OTHER   -> At(r(self), idx)]]

to_packed_buf(self) ==
  LET len == total(self) * 3
  IN IF \E idx \in 0..(total(self) - 1) :
          \/ idx >= Len(r(self))
          \/ idx >= Len(g(self))
          \/ idx >= Len(b(self))
       THEN Panic
       ELSE [tag |-> "ok",
             vec |-> [k \in 1..len |->
                        LET idx == (k - 1) \div 3
                            off == (k - 1) % 3
                        IN CASE off = 0 -> At(r(self), idx)
                             [] off = 1 -> At(g(self), idx)
                             [] OTHER   -> At(b(self), idx)]]

\* ------------------------------------------------------------------ RgbIter

Some(v) == [some |-> TRUE, val |-> v]
None == [some |-> FALSE]

\* <[u8]>::iter(): a cursor over a borrowed slice: the next index and the end.
slice_iter(s) == [pos |-> 0, end |-> Len(s)]

\* slice::Iter::next: the index of the element yielded, if any, and the cursor after.
slice_next(c) ==
  IF c.pos < c.end
    THEN [some |-> TRUE, idx |-> c.pos, it |-> [c EXCEPT !.pos = c.pos + 1]]
    ELSE [some |-> FALSE, idx |-> 0, it |-> c]

\* slice::Iter::size_hint: the exact number of elements left, as both bounds.
slice_size_hint(c) == <<c.end - c.pos, c.end - c.pos>>

\* RgbImg::iter: one cursor per channel.
iter(self) ==
  [r_ |-> slice_iter(r(self)), g_ |-> slice_iter(g(self)), b_ |-> slice_iter(b(self))]

\* RgbIter::next: all three cursors are advanced, then the results are matched.
RgbIter_next_skipping(it, self) ==
  LET rn == slice_next(it.r_)
      gn == slice_next(slice_next(it.g_).it)
      bn == slice_next(it.b_)
  IN [it   |-> [r_ |-> rn.it, g_ |-> gn.it, b_ |-> bn.it],
      item |-> IF rn.some /\ gn.some /\ bn.some
                 THEN Some(<<At(r(self), rn.idx), At(g(self), gn.idx), At(b(self), bn.idx)>>)
                 ELSE None]

RgbIter_next(it, self) ==
  LET rn == slice_next(it.r_)
      gn == slice_next(it.g_)
      bn == slice_next(it.b_)
  IN [it   |-> [r_ |-> rn.it, g_ |-> gn.it, b_ |-> bn.it],
      item |-> IF rn.some /\ gn.some /\ bn.some
                 THEN Some(<<At(r(self), rn.idx), At(g(self), gn.idx), At(b(self), bn.idx)>>)
                 ELSE None]

\* RgbIter::size_hint: the red cursor's.
RgbIter_size_hint_whole(it) == <<it.r_.end, it.r_.end>>

RgbIter_size_hint(it) == slice_size_hint(it.r_)

\* ------------------------------------------------------------------ GreyscaleIter

\* The closure of GreyscaleIter::next.  With N = 21263901*r + 71516868*g +
\* 7219232*b, grey is N / (255 * 10^8) and 255.0 * grey is N / 10^8; N is kept
\* as hi * 10^4 + lo so that no intermediate value leaves 32 bits.  `whole` is
\* floor(N / 10^8).  grey >= 1.0 is whole >= 255, and `as u8` truncates.  The
\* f64 evaluation gives the same byte as the exact one on each of the 2^24
\* triples.
greyscale_map_rounding(px) ==
  LET hi == 2126 * px[1] + 7151 * px[2] + 721 * px[3]
      lo == 3901 * px[1] + 6868 * px[2] + 9232 * px[3]
      whole == (hi \div 10000) + (((hi % 10000) * 10000 + lo + 50000000) \div 100000000)
  IN IF whole >= 255 THEN 255 ELSE whole

greyscale_map(px) ==
  LET hi == 2126 * px[1] + 7151 * px[2] + 721 * px[3]
      lo == 3901 * px[1] + 6868 * px[2] + 9232 * px[3]
      whole == (hi \div 10000) + (((hi % 10000) * 10000 + lo) \div 100000000)
  IN IF whole >= 255 THEN 255 ELSE whole

\* Greyscale::greyscale / GreyscaleIter::new: the adaptor owns its source.
greyscale(source) == [iter_ |-> source]

\* GreyscaleIter::next: the source's next(), mapped.
GreyscaleIter_next(it, self) ==
  LET inner == RgbIter_next(it.iter_, self)
  IN [it   |-> [iter_ |-> inner.it],
      item |-> IF inner.item.some THEN Some(greyscale_map(inner.item.val)) ELSE None]

\* GreyscaleIter::size_hint: the source's.
GreyscaleIter_size_hint(it) == RgbIter_size_hint(it.iter_)

\* ------------------------------------------------------------------ state

VARIABLES
  status,   \* "none" before construction, then "ok" or "panic"
  arg,      \* the arguments of the constructor call
  img,      \* the RgbImg constructed, or NoImg
  packed,   \* the result of the last to_packed_buf(), or NoVec
  it,       \* the live iterator: [kind, iter], or NoIter
  yielded,  \* the triples the RgbIter has returned from next(), in order
  greys,    \* the bytes the GreyscaleIter has returned from next(), in order
  base,     \* how many next() calls the RgbIter had taken when greyscale() wrapped it
  calls,    \* the next() calls made on the iterator, wrapped or not
  last,     \* what the last next() returned, or NoVec
  hint      \* what the last size_hint() returned, or NoHint

vars == <<status, arg, img, packed, it, yielded, greys, base, calls, last, hint>>

Init ==
  /\ status = "none"
  /\ arg = NoArg
  /\ img = NoImg
  /\ packed = NoVec
  /\ it = NoIter
  /\ yielded = <<>>
  /\ greys = <<>>
  /\ base = 0
  /\ calls = 0
  /\ last = NoVec
  /\ hint = NoHint

\* ------------------------------------------------------------------ actions

\* let img = RgbImg::new();
New ==
  /\ status = "none"
  /\ status' = "ok"
  /\ arg' = [tag |-> "new"]
  /\ img' = new
  /\ UNCHANGED <<packed, it, yielded, greys, base, calls, last, hint>>

\* let img = RgbImg::from_packed_buf(&buf, h, w);  A panic leaves no image.
FromPackedBuf ==
  /\ status = "none"
  /\ \E buf \in Bufs, h \in Dims, w \in Dims, junk \in Junk :
       LET res == from_packed_buf(buf, h, w, junk)
       IN /\ arg' = [tag |-> "from_packed_buf", buf |-> buf, h |-> h, w |-> w]
          /\ status' = res.tag
          /\ img' = IF res.tag = "ok" THEN res.img ELSE NoImg
  /\ UNCHANGED <<packed, it, yielded, greys, base, calls, last, hint>>

\* let packed = img.to_packed_buf();
ToPackedBuf ==
  /\ status = "ok"
  /\ packed' = to_packed_buf(img)
  /\ UNCHANGED <<status, arg, img, it, yielded, greys, base, calls, last, hint>>

\* let mut it = img.iter();  A new iterator replaces the one held before.
Iter ==
  /\ status = "ok"
  /\ it' = [kind |-> "rgb", iter |-> iter(img)]
  /\ yielded' = <<>>
  /\ greys' = <<>>
  /\ base' = 0
  /\ calls' = 0
  /\ last' = NoVec
  /\ hint' = NoHint
  /\ UNCHANGED <<status, arg, img, packed>>

\* it.next() on the RgbIter.
RgbIterNext_draining ==
  /\ it.kind = "rgb"
  /\ calls < total(img) + MaxExtraCalls
  /\ LET res == RgbIter_next(it.iter, img)
     IN /\ it' = [it EXCEPT !.iter = res.it]
        /\ last' = res.item
        /\ yielded' = IF res.item.some THEN Append(yielded, res.item.val) ELSE yielded
        /\ img' = IF res.item.some
                    THEN [img EXCEPT !.r[Len(yielded) + 1] = 0,
                                     !.g[Len(yielded) + 1] = 0,
                                     !.b[Len(yielded) + 1] = 0]
                    ELSE img
  /\ calls' = calls + 1
  /\ hint' = NoHint
  /\ UNCHANGED <<status, arg, packed, greys, base>>

RgbIterNext ==
  /\ it.kind = "rgb"
  /\ calls < total(img) + MaxExtraCalls
  /\ LET res == RgbIter_next(it.iter, img)
     IN /\ it' = [it EXCEPT !.iter = res.it]
        /\ last' = res.item
        /\ yielded' = IF res.item.some THEN Append(yielded, res.item.val) ELSE yielded
  /\ calls' = calls + 1
  /\ hint' = NoHint
  /\ UNCHANGED <<status, arg, img, packed, greys, base>>

\* it.size_hint() on the RgbIter.
RgbIterSizeHint ==
  /\ it.kind = "rgb"
  /\ hint' = RgbIter_size_hint(it.iter)
  /\ UNCHANGED <<status, arg, img, packed, it, yielded, greys, base, calls, last>>

\* let mut it = it.greyscale();  The RgbIter moves into the adaptor as it stands.
Greyscale ==
  /\ it.kind = "rgb"
  /\ it' = [kind |-> "grey", iter |-> greyscale(it.iter)]
  /\ base' = calls
  /\ last' = NoVec
  /\ hint' = NoHint
  /\ UNCHANGED <<status, arg, img, packed, yielded, greys, calls>>

\* it.next() on the GreyscaleIter.
GreyscaleIterNext ==
  /\ it.kind = "grey"
  /\ calls < total(img) + MaxExtraCalls
  /\ LET res == GreyscaleIter_next(it.iter, img)
     IN /\ it' = [it EXCEPT !.iter = res.it]
        /\ last' = res.item
        /\ greys' = IF res.item.some THEN Append(greys, res.item.val) ELSE greys
  /\ calls' = calls + 1
  /\ hint' = NoHint
  /\ UNCHANGED <<status, arg, img, packed, yielded, base>>

\* it.size_hint() on the GreyscaleIter.
GreyscaleIterSizeHint ==
  /\ it.kind = "grey"
  /\ hint' = GreyscaleIter_size_hint(it.iter)
  /\ UNCHANGED <<status, arg, img, packed, it, yielded, greys, base, calls, last>>

Next ==
  \/ New
  \/ FromPackedBuf
  \/ ToPackedBuf
  \/ Iter
  \/ RgbIterNext
  \/ RgbIterSizeHint
  \/ Greyscale
  \/ GreyscaleIterNext
  \/ GreyscaleIterSizeHint

Spec == Init /\ [][Next]_vars

\* ------------------------------------------------------------------ properties

Min(a, c) == IF a <= c THEN a ELSE c
Max(a, c) == IF a >= c THEN a ELSE c
Decoded == status # "none" /\ arg.tag = "from_packed_buf"
LenMatches == Len(arg.buf) = 3 * arg.h * arg.w
\* Pixel i (0-based) of the image, as a triple.
PixelAt(i) == <<At(r(img), i), At(g(img), i), At(b(img), i)>>

\* C1: round trip.  When from_packed_buf is given a buffer of exactly 3*h*w
\* bytes it returns an image, and to_packed_buf of that image is the buffer
\* itself: same length, same byte at every offset.
C1_RoundTrip ==
  (Decoded /\ LenMatches) =>
    /\ status = "ok"
    /\ packed # NoVec => packed = [tag |-> "ok", vec |-> arg.buf]

C1_Witness ==
  /\ Decoded
  /\ arg.buf = ExampleBuf /\ arg.h = 1 /\ arg.w = 2
  /\ packed = [tag |-> "ok", vec |-> ExampleBuf]

\* C2: decode rejects malformed input.  Whenever the buffer's length is not
\* 3*h*w, from_packed_buf fails: it returns no image.
C2_RejectsMalformed ==
  (Decoded /\ ~LenMatches) => status # "ok"

\* C3: no partial-failure state.  Either from_packed_buf returns no value, or
\* every index i of 0..h*w-1 of each channel was populated from buf:
\* red[i] = buf[3i], green[i] = buf[3i+1], blue[i] = buf[3i+2].
C3_NoPartialImage ==
  (Decoded /\ status = "ok") =>
    \A i \in 0..(arg.h * arg.w - 1) :
      /\ 3 * i + 2 < Len(arg.buf)
      /\ At(r(img), i) = At(arg.buf, 3 * i)
      /\ At(g(img), i) = At(arg.buf, 3 * i + 1)
      /\ At(b(img), i) = At(arg.buf, 3 * i + 2)

\* C4: dimension consistency.  Every image a constructor returns, at every
\* point of its use, has height and width as given (0 and 0 for new), total()
\* equal to their product and three channels of exactly total() bytes each.
C4_DimensionConsistency ==
  status = "ok" =>
    /\ height(img) = (IF arg.tag = "new" THEN 0 ELSE arg.h)
    /\ width(img) = (IF arg.tag = "new" THEN 0 ELSE arg.w)
    /\ total(img) = height(img) * width(img)
    /\ Len(r(img)) = total(img)
    /\ Len(g(img)) = total(img)
    /\ Len(b(img)) = total(img)

C4_Witness ==
  /\ Decoded /\ status = "ok" /\ ~LenMatches
  /\ total(img) = 4
  /\ packed # NoVec
  /\ calls > 0

\* C5: decode layout.  For a buffer of exactly 3*h*w bytes the image has the
\* height and width given and, for every pixel index i, r[i] = buf[3i],
\* g[i] = buf[3i+1], b[i] = buf[3i+2], the bytes unchanged.
C5_DecodeLayout ==
  (Decoded /\ LenMatches) =>
    /\ status = "ok"
    /\ height(img) = arg.h
    /\ width(img) = arg.w
    /\ Len(r(img)) = arg.h * arg.w
    /\ Len(g(img)) = arg.h * arg.w
    /\ Len(b(img)) = arg.h * arg.w
    /\ \A i \in 0..(arg.h * arg.w - 1) :
         /\ At(r(img), i) = At(arg.buf, 3 * i)
         /\ At(g(img), i) = At(arg.buf, 3 * i + 1)
         /\ At(b(img), i) = At(arg.buf, 3 * i + 2)
    /\ (arg.buf = ExampleBuf /\ arg.h = 1 /\ arg.w = 2) =>
         /\ r(img) = <<10, 40>>
         /\ g(img) = <<20, 50>>
         /\ b(img) = <<30, 60>>

C5_Witness ==
  /\ Decoded /\ status = "ok"
  /\ arg.buf = ExampleBuf /\ arg.h = 1 /\ arg.w = 2
  /\ r(img) = <<10, 40>> /\ g(img) = <<20, 50>> /\ b(img) = <<30, 60>>

\* C6: encode layout.  to_packed_buf never fails; its result has exactly
\* 3*total() bytes, with r[i] at offset 3i, g[i] at 3i+1 and b[i] at 3i+2 for
\* every pixel index i; for the image of new() it is the empty buffer.
C6_EncodeLayout ==
  packed # NoVec =>
    /\ packed.tag = "ok"
    /\ Len(packed.vec) = 3 * total(img)
    /\ \A i \in 0..(total(img) - 1) :
         /\ At(packed.vec, 3 * i) = At(r(img), i)
         /\ At(packed.vec, 3 * i + 1) = At(g(img), i)
         /\ At(packed.vec, 3 * i + 2) = At(b(img), i)
    /\ arg.tag = "new" => packed.vec = <<>>

C6_Witness ==
  /\ packed # NoVec /\ packed.tag = "ok"
  /\ total(img) = 2
  /\ r(img) = <<0, 255>> /\ g(img) = <<255, 255>> /\ b(img) = <<255, 0>>
  /\ packed.vec = <<0, 255, 255, 255, 255, 0>>

\* C7: zip exhaustion.  Over an image of n pixels the RgbIter yields exactly n
\* triples, the i-th being (r[i], g[i], b[i]) in increasing index order; the
\* (n+1)-th call of next() and every later one return None, and a None comes
\* with a channel cursor at its end.
C7_ZipExhaustion ==
  it.kind = "rgb" =>
    /\ Len(yielded) = Min(calls, total(img))
    /\ \A i \in 1..Len(yielded) : yielded[i] = PixelAt(i - 1)
    /\ (calls > 0 /\ calls <= total(img)) => last = Some(PixelAt(calls - 1))
    /\ calls > total(img) =>
         /\ last = None
         /\ \/ it.iter.r_.pos = it.iter.r_.end
            \/ it.iter.g_.pos = it.iter.g_.end
            \/ it.iter.b_.pos = it.iter.b_.end

C7_Witness ==
  /\ it.kind = "rgb"
  /\ total(img) = 2
  /\ calls = 4
  /\ last = None
  /\ yielded = <<PixelAt(0), PixelAt(1)>>
  /\ PixelAt(0) # PixelAt(1)

\* y is the luma byte of the triple px: 255 when L >= 1.0, else 255*L
\* truncated toward zero, L = 0.21263901*r/255 + 0.71516868*g/255 +
\* 0.07219232*b/255.  In hundredths, 255*L is m = floor(N / 10^6) with
\* N = 21263901*r + 71516868*g + 7219232*b.
LumaIs(px, y) ==
  LET m == (21 * px[1] + 71 * px[2] + 7 * px[3])
           + ((263901 * px[1] + 516868 * px[2] + 219232 * px[3]) \div 1000000)
  IN /\ y \in 0..255
     /\ IF m >= 25500 THEN y = 255 ELSE 100 * y <= m /\ m < 100 * (y + 1)
     /\ px = <<255, 255, 255>> => y = 255
     /\ px = <<0, 0, 0>> => y = 0
     /\ px = <<255, 0, 0>> => y = 54

\* C8: luma map.  The GreyscaleIter yields one byte per triple of its source,
\* as many as the source has left, the i-th being the luma byte of the i-th
\* triple alone: 255 if L >= 1.0, else trunc(255*L); always within 0..255.
C8_LumaMap ==
  it.kind = "grey" =>
    LET start == Min(base, total(img))
    IN /\ Len(greys) = Min(calls - base, total(img) - start)
       /\ \A i \in 1..Len(greys) : LumaIs(PixelAt(start + i - 1), greys[i])
       /\ last = None => Len(greys) = total(img) - start

C8_Witness ==
  /\ it.kind = "grey"
  /\ base = 0
  /\ r(img) = <<255, 255>> /\ g(img) = <<0, 255>> /\ b(img) = <<0, 255>>
  /\ greys = <<54, 255>>
  /\ last = None

\* C9: read-only operations.  Once constructed, the image (its three channels,
\* its height and its width) is left unchanged by every step: to_packed_buf,
\* iter, greyscale, next and size_hint.
C9_ReadOnly == [][status = "ok" => img' = img]_vars

C9_Witness ==
  /\ status = "ok"
  /\ total(img) = 2
  /\ packed # NoVec
  /\ Len(yielded) = 1
  /\ Len(greys) = 1
  /\ hint # NoHint

\* C10: exact size hints.  After k calls of next() on the iterator of an image
\* of n pixels, size_hint() is max(n-k, 0) as both the lower and the upper
\* bound, (n, n) when fresh; a GreyscaleIter reports what its source reports.
C10_SizeHint ==
  hint # NoHint =>
    /\ hint = <<Max(total(img) - calls, 0), Max(total(img) - calls, 0)>>
    /\ it.kind = "grey" => hint = RgbIter_size_hint(it.iter.iter_)

C10_Witness ==
  /\ it.kind = "grey"
  /\ total(img) = 2
  /\ base = 0
  /\ calls = 1
  /\ hint = <<1, 1>>

====
